---------------------------- MODULE Spec2Model ----------------------------
(***************************************************************************)
(* Model of gpu_uniformbuffer.c (src/unnamed/part_000): the dynamic        *)
(* uniform buffer object.  A dynamic UBO is built from a list of GPUInput, *)
(* laid out in a staging block, re-synchronised from the inputs' live      *)
(* values (eval) and uploaded lazily on bind when it is flagged dirty.     *)
(*                                                                         *)
(* Units follow the code: item.size and buffer.size are in bytes,          *)
(* item.offset is in floats (it is added to a float pointer, line 265).    *)
(* The staging block and the GPU store are sequences of 4-byte words.      *)
(***************************************************************************)
EXTENDS Integers, Sequences, FiniteSets, TLC

\* ---------------------------------------------------------------- bounds
\* Longest input list handed to the builder.
MaxInputs == 3
\* Longest input list in the two-thread specification.
MaxThreadInputs == 2
\* GPU_max_ubo_binds(): the platform's number of bind points.
MaxUboBinds == 2
\* GPU_max_ubo_size(): the platform's largest UBO, in bytes.
MaxUboSize == 32

\* ------------------------------------------------------ program constants
GPU_FLOAT == 1
GPU_VEC2 == 2
GPU_VEC3 == 3
GPU_VEC4 == 4
MAX_UBO_GPU_TYPE == GPU_VEC4
SizeofFloat == 4

GPU_UBO_FLAG_INITIALIZED == "INITIALIZED"
GPU_UBO_FLAG_DIRTY == "DIRTY"

NULL == 0

\* ----------------------------------------------------------------- state
VARIABLES
    inputs,          \* the caller's list of GPUInput (original order)
    ver,             \* version of the inputs' live values (dynamicvec)
    status,          \* where the buffer is in its life
    r_inputs_sorted, \* the caller's output list: LinkData->data pointers
    link,            \* cursor of the build loop (1-based position), line 181
    offset,          \* running offset of the build loop, in floats
    size,            \* ubo->buffer.size, bytes
    bindcode,        \* ubo->buffer.bindcode
    bindpoint,       \* ubo->buffer.bindpoint
    flag,            \* ubo->flag, as the set of flags that are set
    items,           \* ubo->items
    id_lookup,       \* ubo->id_lookup
    data,            \* ubo->data, the staging block (words), <<>> when NULL
    err_out,         \* the caller's error buffer
    gl_buffer,       \* the GPU store of the buffer object (words)
    gl_handles,      \* buffer objects generated and not deleted
    gl_calls,        \* GL calls made by the last operation
    last_op,         \* the last operation and its argument
    bind_uploads,    \* uploads done by bind since the last tag / build
    bind_pc, bind_number, bind_tmp,  \* GPU-context thread inside bind
    worker_pc, worker_tmp            \* worker thread inside sync + tag

ubo_vars == <<size, bindcode, bindpoint, flag, items, id_lookup, data>>
build_vars == <<r_inputs_sorted, link, offset, err_out>>
gl_vars == <<gl_buffer, gl_handles, gl_calls>>
thread_vars == <<bind_pc, bind_number, bind_tmp, worker_pc, worker_tmp>>
vars == <<inputs, ver, status, build_vars, ubo_vars, gl_vars, last_op,
          bind_uploads, thread_vars>>

\* ---------------------------------------------------------------- inputs
\* Address of the i-th (0-based) GPUInput of the caller's list.
InputPtr(i) == 16 * (i + 1)

InputKinds ==
    {[type |-> t, source |-> "VEC_UNIFORM", link |-> FALSE] :
        t \in GPU_FLOAT..MAX_UBO_GPU_TYPE}
    \cup {[type |-> GPU_VEC3, source |-> "VEC_UNIFORM", link |-> TRUE]}

InputLists(n) == UNION {[1..k -> InputKinds] : k \in 1..n}

gpu_input_is_dynamic_uniform_ignores_link(input) ==
    input.source = "VEC_UNIFORM"

gpu_input_is_dynamic_uniform(input) ==
    input.source = "VEC_UNIFORM" /\ input.link = FALSE

\* BLI_findindex: 0-based position of the input at address ptr, or -1.
BLI_findindex(list, ptr) ==
    IF \E i \in 1..Len(list) : InputPtr(i - 1) = ptr
    THEN (CHOOSE i \in 1..Len(list) : InputPtr(i - 1) = ptr) - 1
    ELSE -1

\* The GPUInput a LinkData->data pointer points to.
Deref(ptr) == inputs[BLI_findindex(inputs, ptr) + 1]

TypeOf(ptr) == Deref(ptr).type

\* input->dynamicvec[c] at the current version; reading past the input's
\* own components yields the indeterminate word junk.
Junk == {<<NULL, 0, 0>>, <<NULL, 0, 1>>}

DynamicVec(ptr, c, v, junk) ==
    IF c < TypeOf(ptr) THEN <<ptr, c, v>> ELSE junk

\* ------------------------------------------------------ Alignment Sorter
inputs_cmp_or_equal(a, b) == IF TypeOf(a) <= TypeOf(b) THEN 1 ELSE 0

\* inputs_cmp: 1 when the first link should come after the second.
inputs_cmp(a, b) == IF TypeOf(a) < TypeOf(b) THEN 1 ELSE 0

\* Stable insertion of x: before the first link that should come after it.
RECURSIVE SortedInsert(_, _)
SortedInsert(list, x) ==
    IF list = <<>> THEN <<x>>
    ELSE IF inputs_cmp(Head(list), x) = 1 THEN <<x>> \o list
    ELSE <<Head(list)>> \o SortedInsert(Tail(list), x)

\* BLI_listbase_sort with inputs_cmp: a stable sort.
RECURSIVE BLI_listbase_sort(_)
BLI_listbase_sort(list) ==
    IF list = <<>> THEN <<>>
    ELSE SortedInsert(BLI_listbase_sort(SubSeq(list, 1, Len(list) - 1)),
                      list[Len(list)])

\* Position of a link in a list (links are named by their data pointer).
PosOf(list, p) == CHOOSE i \in 1..Len(list) : list[i] = p

\* link->next, NULL at the tail.
NextLink(list, p) ==
    IF PosOf(list, p) < Len(list) THEN list[PosOf(list, p) + 1] ELSE NULL

BLI_remlink(list, p) == SelectSeq(list, LAMBDA x : x # p)

BLI_insertlinkafter(list, prev, p) ==
    SubSeq(list, 1, PosOf(list, prev)) \o <<p>>
        \o SubSeq(list, PosOf(list, prev) + 1, Len(list))

\* inputs_lookup[type] after the loop of lines 334-343: the link at which
\* the walk last switched to that type, NULL when it never did.  A type
\* above MAX_UBO_GPU_TYPE indexes past the table (see SorterOverflows).
RECURSIVE LookupWalk(_, _, _, _)
LookupWalk(list, k, cur_type, found) ==
    IF k > Len(list) THEN found
    ELSE IF TypeOf(list[k]) = cur_type
         THEN LookupWalk(list, k + 1, cur_type, found)
         ELSE LookupWalk(list, k + 1, TypeOf(list[k]),
                         IF TypeOf(list[k]) \in DOMAIN found
                         THEN [found EXCEPT ![TypeOf(list[k])] = list[k]]
                         ELSE found)

inputs_lookup(list) ==
    LookupWalk(list, 1, MAX_UBO_GPU_TYPE + 1,
               [t \in 0..MAX_UBO_GPU_TYPE |-> NULL])

RECURSIVE PairLoop_no_advance(_, _, _)
PairLoop_no_advance(list, lnk, lookup_float) ==
    IF lnk = NULL \/ TypeOf(lnk) # GPU_VEC3 THEN list
    ELSE LET link_next == NextLink(list, lnk) IN
         IF link_next = NULL \/ TypeOf(link_next) = GPU_FLOAT THEN list
         ELSE IF lookup_float # NULL
              THEN PairLoop_no_advance(
                       BLI_insertlinkafter(BLI_remlink(list, lookup_float),
                                           lnk, lookup_float),
                       link_next, lookup_float)
              ELSE PairLoop_no_advance(list, link_next, lookup_float)

\* The while loop of lines 351-371.
RECURSIVE PairLoop(_, _, _)
PairLoop(list, lnk, lookup_float) ==
    IF lnk = NULL \/ TypeOf(lnk) # GPU_VEC3 THEN list
    ELSE LET link_next == NextLink(list, lnk) IN
         IF link_next = NULL \/ TypeOf(link_next) = GPU_FLOAT THEN list
         ELSE IF lookup_float # NULL
              THEN PairLoop(
                       BLI_insertlinkafter(BLI_remlink(list, lookup_float),
                                           lnk, lookup_float),
                       link_next, NextLink(list, lookup_float))
              ELSE PairLoop(list, link_next, lookup_float)

\* Line 340 writes inputs_lookup[input->type] outside the table, which has
\* MAX_UBO_GPU_TYPE + 1 entries.
SorterOverflows(list) ==
    \E k \in 1..Len(list) : TypeOf(list[k]) > MAX_UBO_GPU_TYPE

gpu_uniformbuffer_inputs_sort(list) ==
    LET sorted == BLI_listbase_sort(list)
        lookup == inputs_lookup(sorted)
    IN  IF lookup[GPU_VEC3] = NULL THEN sorted
        ELSE PairLoop(sorted, lookup[GPU_VEC3], lookup[GPU_FLOAT])

\* ------------------------------------------------------------ item table
get_padded_gpu_type_unpadded(list, k) == TypeOf(list[k])

\* get_padded_gpu_type of the link at position k of the sorted list.
get_padded_gpu_type(list, k) ==
    IF /\ TypeOf(list[k]) = GPU_VEC3
       /\ k < Len(list)
       /\ TypeOf(list[k + 1]) # GPU_FLOAT
    THEN GPU_VEC4
    ELSE TypeOf(list[k])

\* The item gpu_uniformbuffer_populate creates.
NewItem(gputype, off) ==
    [gputype |-> gputype, size |-> gputype * SizeofFloat, offset |-> off]

\* BLI_findlink: the item at 0-based position id; FALSE stands for NULL.
HasLink(list, id) == id >= 0 /\ id < Len(list)
BLI_findlink(list, id) == list[id + 1]

\* The links of the qualifying inputs, in original order (lines 142-147).
FilterInputs(list) ==
    LET idx == SelectSeq([i \in 1..Len(list) |-> i],
                         LAMBDA i : gpu_input_is_dynamic_uniform(list[i]))
    IN  [k \in 1..Len(idx) |-> InputPtr(idx[k] - 1)]

\* ------------------------------------------------------------ Sync / Eval
\* memcpy((float *)ubo->data + item->offset, input->dynamicvec, item->size):
\* item.size / 4 words, written at word item.offset of the block.
Memcpy(d, item, ptr, v, junk) ==
    [w \in 1..Len(d) |->
        IF w - 1 >= item.offset /\ w - 1 < item.offset + item.size \div SizeofFloat
        THEN DynamicVec(ptr, w - 1 - item.offset, v, junk)
        ELSE d[w]]

\* The loop of GPU_uniformbuffer_dynamic_eval from input i on, sorted_id
\* being the number of lookup entries consumed so far.  fault: BLI_findlink
\* returned NULL and item->size was read through it.
RECURSIVE EvalLoop(_, _, _, _, _)
EvalLoop(d, i, sorted_id, v, junk) ==
    IF i > Len(inputs) THEN [fault |-> FALSE, data |-> d]
    ELSE IF ~gpu_input_is_dynamic_uniform(inputs[i])
         THEN EvalLoop(d, i + 1, sorted_id, v, junk)
         ELSE LET id == id_lookup[sorted_id + 1] IN
              IF ~HasLink(items, id) THEN [fault |-> TRUE, data |-> d]
              ELSE EvalLoop(Memcpy(d, BLI_findlink(items, id),
                                   InputPtr(i - 1), v, junk),
                            i + 1, sorted_id + 1, v, junk)

\* What a call of GPU_uniformbuffer_dynamic_eval can leave behind.  The read
\* through a NULL item is undefined: the process faults, or it goes on with
\* a staging block of indeterminate content.
GPU_uniformbuffer_dynamic_eval(d, v) ==
    LET runs == {EvalLoop(d, 1, 0, v, junk) : junk \in Junk}
    IN  {r \in runs : ~r.fault}
        \cup {[fault |-> TRUE, data |-> d] : r \in {x \in runs : x.fault}}
        \cup {[fault |-> FALSE, data |-> [w \in 1..Len(d) |-> junk]] :
                 junk \in {j \in Junk : \E x \in runs : x.fault}}

\* ----------------------------------------------------------- Buffer Core
\* glBufferData(size, data): a new store holding the first size bytes.
gpu_uniformbuffer_initialize(sz, d) == SubSeq(d, 1, sz \div SizeofFloat)

gpu_uniformbuffer_update_floats(store, sz, d) ==
    [w \in 1..Len(store) |->
        IF w <= (sz \div SizeofFloat) \div SizeofFloat THEN d[w] ELSE store[w]]

\* glBufferSubData(0, size, data): the first size bytes of the store.
gpu_uniformbuffer_update(store, sz, d) ==
    [w \in 1..Len(store) |-> IF w <= sz \div SizeofFloat THEN d[w] ELSE store[w]]

GPU_uniformbuffer_dynamic_update_keeps_dirty(f, store, sz, d) ==
    IF GPU_UBO_FLAG_INITIALIZED \in f
    THEN [flag |-> f,
          store |-> gpu_uniformbuffer_update(store, sz, d),
          call |-> "glBufferSubData"]
    ELSE [flag |-> f \cup {GPU_UBO_FLAG_INITIALIZED},
          store |-> gpu_uniformbuffer_initialize(sz, d),
          call |-> "glBufferData"]

GPU_uniformbuffer_dynamic_update_never_initialized(f, store, sz, d) ==
    [flag |-> f \ {GPU_UBO_FLAG_DIRTY},
     store |-> gpu_uniformbuffer_initialize(sz, d),
     call |-> "glBufferData"]

\* GPU_uniformbuffer_dynamic_update: the flags, the store and the GL call.
GPU_uniformbuffer_dynamic_update(f, store, sz, d) ==
    IF GPU_UBO_FLAG_INITIALIZED \in f
    THEN [flag |-> f \ {GPU_UBO_FLAG_DIRTY},
          store |-> gpu_uniformbuffer_update(store, sz, d),
          call |-> "glBufferSubData"]
    ELSE [flag |-> (f \cup {GPU_UBO_FLAG_INITIALIZED}) \ {GPU_UBO_FLAG_DIRTY},
          store |-> gpu_uniformbuffer_initialize(sz, d),
          call |-> "glBufferData"]

TagFlag_noop(f) == f

\* GPU_uniformbuffer_tag_dirty.
TagFlag(f) == f \cup {GPU_UBO_FLAG_DIRTY}

Op(name, n) == [op |-> name, number |-> n]

\* ------------------------------------------------------------------ Init
InitWith(lists) ==
    /\ inputs \in lists
    /\ ver = 0
    /\ status = "none"
    /\ r_inputs_sorted = <<>>
    /\ link = 0
    /\ offset = 0
    /\ size = 0
    /\ bindcode = 0
    /\ bindpoint = 0
    /\ flag = {}
    /\ items = <<>>
    /\ id_lookup = <<>>
    /\ data = <<>>
    /\ err_out = ""
    /\ gl_buffer = <<>>
    /\ gl_handles = {}
    /\ gl_calls = <<>>
    /\ last_op = Op("none", -1)
    /\ bind_uploads = 0
    /\ bind_pc = "idle"
    /\ bind_number = -1
    /\ bind_tmp = {}
    /\ worker_pc = "idle"
    /\ worker_tmp = {}

Init == InitWith(InputLists(MaxInputs))

\* ------------------------------------------- Dynamic Buffer Builder steps
\* GPU_uniformbuffer_free on the half-built buffer of a failed build.
FailBuild(outcome, msg, supplied, calls) ==
    /\ status' = outcome
    /\ err_out' = IF supplied THEN msg ELSE err_out
    /\ size' = 0
    /\ items' = <<>>
    /\ gl_handles' = {}
    /\ gl_calls' = calls \o <<"glDeleteBuffers">>
    /\ UNCHANGED <<link, offset, bindcode, bindpoint, flag, id_lookup, data,
                   gl_buffer>>

\* Lines 136-177: filter, allocate, generate the handle, the two failure
\* checks, the lookup allocation and the sort.  code is what glGenBuffers
\* stored in bindcode; supplied tells whether err_out was passed.  A sorter
\* write outside its table is undefined: the process faults or goes on.
BuildBegin ==
    /\ status = "none"
    /\ last_op' = Op("build", -1)
    /\ UNCHANGED <<inputs, ver, bind_uploads, thread_vars>>
    /\ IF FilterInputs(inputs) = <<>>
       THEN /\ status' = "null_empty"
            /\ r_inputs_sorted' = <<>>
            /\ gl_calls' = <<>>
            /\ UNCHANGED <<link, offset, err_out, ubo_vars, gl_buffer, gl_handles>>
       ELSE \E code \in {0, 1}, supplied \in BOOLEAN :
            IF code = 0
            THEN /\ r_inputs_sorted' = FilterInputs(inputs)
                 /\ FailBuild("null_create_failed",
                              "GPUUniformBuffer: UBO create failed", supplied,
                              <<"glGenBuffers">>)
            ELSE IF size > MaxUboSize
            THEN /\ r_inputs_sorted' = FilterInputs(inputs)
                 /\ FailBuild("null_too_big",
                              "GPUUniformBuffer: UBO too big", supplied,
                              <<"glGenBuffers">>)
            ELSE /\ r_inputs_sorted' =
                        gpu_uniformbuffer_inputs_sort(FilterInputs(inputs))
                 /\ status' \in
                        IF SorterOverflows(FilterInputs(inputs))
                        THEN {"fault", "populate"}
                        ELSE {"populate"}
                 /\ link' = 1
                 /\ offset' = 0
                 /\ bindcode' = code
                 /\ bindpoint' = -1
                 /\ flag' = {GPU_UBO_FLAG_DIRTY}
                 /\ gl_handles' = {code}
                 /\ gl_calls' = <<"glGenBuffers">>
                 /\ UNCHANGED <<size, items, id_lookup, data, err_out, gl_buffer>>

PopulateSize_components(sz, item) == sz + item.gputype

\* ubo->buffer.size after gpu_uniformbuffer_populate added an item.
PopulateSize(sz, item) == sz + item.size

NextOffset_bytes(off, gputype) == off + gputype * SizeofFloat

\* offset after one loop iteration (line 185).
NextOffset(off, gputype) == off + gputype

LookupId_sorted(list, ptr) == PosOf(r_inputs_sorted, ptr) - 1

\* The id recorded for a packed link (lines 187-189).
LookupId(list, ptr) == BLI_findindex(list, ptr)

\* BLI_assert(gputype <= MAX_UBO_GPU_TYPE), line 381: whether it stops the
\* process.  It does in a build with assertions, never in one without.
PopulateAsserts(gputype) ==
    IF gputype <= MAX_UBO_GPU_TYPE THEN {FALSE} ELSE {TRUE, FALSE}

\* One iteration of the loop of lines 181-191.
BuildPopulate ==
    /\ status = "populate"
    /\ link <= Len(r_inputs_sorted)
    /\ IF gpu_input_is_dynamic_uniform(Deref(r_inputs_sorted[link]))
       THEN LET gputype == get_padded_gpu_type(r_inputs_sorted, link)
                item == NewItem(gputype, offset)
            IN  \E stopped \in PopulateAsserts(gputype) :
                IF stopped
                THEN /\ status' = "assert"
                     /\ UNCHANGED <<items, size, flag, offset, id_lookup, link>>
                ELSE /\ items' = Append(items, item)
                     /\ size' = PopulateSize(size, item)
                     /\ flag' = flag \cup {GPU_UBO_FLAG_DIRTY}
                     /\ offset' = NextOffset(offset, gputype)
                     /\ id_lookup' =
                            Append(id_lookup,
                                   LookupId(inputs, r_inputs_sorted[link]))
                     /\ link' = link + 1
                     /\ UNCHANGED status
       ELSE /\ link' = link + 1
            /\ UNCHANGED <<items, size, flag, offset, id_lookup, status>>
    /\ gl_calls' = <<>>
    /\ UNCHANGED <<inputs, ver, r_inputs_sorted, err_out, bindcode,
                   bindpoint, data, gl_buffer, gl_handles, last_op,
                   bind_uploads, thread_vars>>

\* MEM_mallocN(ubo->buffer.size): a block of indeterminate words.
MallocData(sz, junk) == [w \in 1..(sz \div SizeofFloat) |-> junk]

\* Lines 193-199: the staging block, the first sync and the first upload.
BuildFinish ==
    /\ status = "populate"
    /\ link > Len(r_inputs_sorted)
    /\ \E junk \in Junk :
       \E r \in GPU_uniformbuffer_dynamic_eval(MallocData(size, junk), ver) :
          IF r.fault
          THEN /\ status' = "fault"
               /\ data' = r.data
               /\ gl_calls' = <<>>
               /\ UNCHANGED <<flag, gl_buffer>>
          ELSE LET u == GPU_uniformbuffer_dynamic_update(flag, gl_buffer, size, r.data)
               IN  /\ status' = "live"
                   /\ data' = r.data
                   /\ flag' = u.flag
                   /\ gl_buffer' = u.store
                   /\ gl_calls' = <<u.call>>
    /\ bind_uploads' = 0
    /\ UNCHANGED <<inputs, ver, build_vars, size, bindcode, bindpoint, items,
                   id_lookup, gl_handles, last_op, thread_vars>>

\* ------------------------------------------------- operations, sequential
Idle == bind_pc = "idle" /\ worker_pc = "idle"

\* The states of the Buffer Core, read off ubo->flag.
Clean(f) == f = {GPU_UBO_FLAG_INITIALIZED}
Dirty(f) == GPU_UBO_FLAG_DIRTY \in f

\* Saturating count of the uploads bind made since the last tag.
CountUpload(n) == IF n < 2 THEN n + 1 ELSE n

SlotExhausted_off_by_one(number) == number > MaxUboBinds

\* The guard of line 397.
SlotExhausted(number) == number >= MaxUboBinds

\* GPU_uniformbuffer_bind(ubo, number).
GPU_uniformbuffer_bind(number) ==
    /\ status = "live" /\ Idle
    /\ last_op' = Op("bind", number)
    /\ IF SlotExhausted(number)
       THEN /\ gl_calls' = <<>>
            /\ UNCHANGED <<flag, gl_buffer, bindpoint, bind_uploads>>
       ELSE /\ IF GPU_UBO_FLAG_DIRTY \in flag
               THEN LET u == GPU_uniformbuffer_dynamic_update(flag, gl_buffer, size, data)
                    IN  /\ flag' = u.flag
                        /\ gl_buffer' = u.store
                        /\ gl_calls' = <<u.call>> \o
                               (IF bindcode # 0 THEN <<"glBindBufferBase">> ELSE <<>>)
                        /\ bind_uploads' = CountUpload(bind_uploads)
               ELSE /\ gl_calls' =
                           (IF bindcode # 0 THEN <<"glBindBufferBase">> ELSE <<>>)
                    /\ UNCHANGED <<flag, gl_buffer, bind_uploads>>
            /\ bindpoint' = number
    /\ UNCHANGED <<inputs, ver, status, build_vars, size, bindcode, items,
                   id_lookup, data, gl_handles, thread_vars>>

Bind == \E number \in 0..MaxUboBinds : GPU_uniformbuffer_bind(number)

GPU_uniformbuffer_unbind_drops_block ==
    /\ status = "live" /\ Idle
    /\ last_op' = Op("unbind", -1)
    /\ bindpoint' = -1
    /\ data' = <<>>
    /\ gl_calls' = <<>>
    /\ UNCHANGED <<inputs, ver, status, build_vars, size, bindcode, flag, items,
                   id_lookup, gl_buffer, gl_handles, bind_uploads, thread_vars>>

GPU_uniformbuffer_unbind ==
    /\ status = "live" /\ Idle
    /\ last_op' = Op("unbind", -1)
    /\ bindpoint' = -1
    /\ gl_calls' = <<>>
    /\ UNCHANGED <<inputs, ver, status, build_vars, size, bindcode, flag, items,
                   id_lookup, data, gl_buffer, gl_handles, bind_uploads,
                   thread_vars>>

GPU_uniformbuffer_tag_dirty ==
    /\ status = "live" /\ Idle
    /\ last_op' = Op("tag_dirty", -1)
    /\ flag' = TagFlag(flag)
    /\ bind_uploads' = 0
    /\ gl_calls' = <<>>
    /\ UNCHANGED <<inputs, ver, status, build_vars, size, bindcode, bindpoint,
                   items, id_lookup, data, gl_buffer, gl_handles, thread_vars>>

\* The flags after a sync: GPU_uniformbuffer_dynamic_eval never writes them.
EvalFlag(f) == f

\* GPU_uniformbuffer_dynamic_eval(ubo, inputs) called by the owner.
Sync ==
    /\ status = "live" /\ Idle
    /\ last_op' = Op("eval", -1)
    /\ \E r \in GPU_uniformbuffer_dynamic_eval(data, ver) :
          /\ data' = r.data
          /\ status' = IF r.fault THEN "fault" ELSE "live"
    /\ flag' = EvalFlag(flag)
    /\ gl_calls' = <<>>
    /\ UNCHANGED <<inputs, ver, build_vars, size, bindcode, bindpoint, items,
                   id_lookup, gl_buffer, gl_handles, bind_uploads, thread_vars>>

\* GPU_uniformbuffer_dynamic_update(ubo) called directly.
DynamicUpdate ==
    /\ status = "live" /\ Idle
    /\ last_op' = Op("dynamic_update", -1)
    /\ LET u == GPU_uniformbuffer_dynamic_update(flag, gl_buffer, size, data)
       IN  /\ flag' = u.flag
           /\ gl_buffer' = u.store
           /\ gl_calls' = <<u.call>>
    /\ UNCHANGED <<inputs, ver, status, build_vars, size, bindcode, bindpoint,
                   items, id_lookup, data, gl_handles, bind_uploads, thread_vars>>

\* The owner of the inputs changes their live values (not this file's code).
SetValues ==
    /\ status = "live" /\ Idle
    /\ last_op' = Op("set_values", -1)
    /\ ver' = 1 - ver
    /\ gl_calls' = <<>>
    /\ UNCHANGED <<inputs, status, build_vars, ubo_vars, gl_buffer, gl_handles,
                   bind_uploads, thread_vars>>

\* GPU_uniformbuffer_free with gpu_uniformbuffer_dynamic_reset.
GPU_uniformbuffer_free ==
    /\ status = "live" /\ Idle
    /\ last_op' = Op("free", -1)
    /\ status' = "freed"
    /\ size' = 0
    /\ data' = <<>>
    /\ id_lookup' = <<>>
    /\ items' = <<>>
    /\ gl_handles' = {}
    /\ gl_buffer' = <<>>
    /\ gl_calls' = <<"glDeleteBuffers">>
    /\ UNCHANGED <<inputs, ver, build_vars, bindcode, bindpoint, flag,
                   bind_uploads, thread_vars>>

Next ==
    \/ BuildBegin
    \/ BuildPopulate
    \/ BuildFinish
    \/ Bind
    \/ GPU_uniformbuffer_unbind
    \/ GPU_uniformbuffer_tag_dirty
    \/ Sync
    \/ DynamicUpdate
    \/ SetValues
    \/ GPU_uniformbuffer_free

Spec == Init /\ [][Next]_vars

\* ----------------------------------------------------- two-thread steps
\* The GPU-context thread runs GPU_uniformbuffer_bind and a worker thread
\* runs sync then tag-dirty, statement by statement; the flag updates
\* ( |= and &= on a char ) are a read followed by a write.  last_op and
\* gl_calls describe the sequential operations only.
ThreadFrame ==
    UNCHANGED <<inputs, build_vars, size, bindcode, items, id_lookup,
                gl_handles, gl_calls, last_op, bind_uploads>>

\* Line 397: the slot check.
BindCheck ==
    /\ status = "live" /\ bind_pc = "idle"
    /\ \E number \in 0..MaxUboBinds :
          /\ bind_number' = number
          /\ bind_pc' = IF SlotExhausted(number) THEN "idle" ELSE "test_dirty"
    /\ ThreadFrame
    /\ UNCHANGED <<ver, status, bindpoint, flag, data, gl_buffer, bind_tmp,
                   worker_pc, worker_tmp>>

\* Line 404: the test of the dirty flag.
BindTestDirty ==
    /\ status = "live" /\ bind_pc = "test_dirty"
    /\ bind_pc' = IF Dirty(flag) THEN "upload" ELSE "bind_base"
    /\ ThreadFrame
    /\ UNCHANGED <<ver, status, bindpoint, flag, data, gl_buffer, bind_number,
                   bind_tmp, worker_pc, worker_tmp>>

\* Lines 279-285: the upload of the staging block.
BindUpload ==
    /\ status = "live" /\ bind_pc = "upload"
    /\ LET u == GPU_uniformbuffer_dynamic_update(flag, gl_buffer, size, data)
       IN  /\ gl_buffer' = u.store
           /\ flag' = u.flag \cup (flag \cap {GPU_UBO_FLAG_DIRTY})
    /\ bind_pc' = "clear_read"
    /\ ThreadFrame
    /\ UNCHANGED <<ver, status, bindpoint, data, bind_number, bind_tmp,
                   worker_pc, worker_tmp>>

\* Line 287, the read of ubo->flag.
BindClearRead ==
    /\ status = "live" /\ bind_pc = "clear_read"
    /\ bind_tmp' = flag
    /\ bind_pc' = "clear_write"
    /\ ThreadFrame
    /\ UNCHANGED <<ver, status, bindpoint, flag, data, gl_buffer, bind_number,
                   worker_pc, worker_tmp>>

\* Line 287, the write of ubo->flag.
BindClearWrite ==
    /\ status = "live" /\ bind_pc = "clear_write"
    /\ flag' = bind_tmp \ {GPU_UBO_FLAG_DIRTY}
    /\ bind_pc' = "bind_base"
    /\ ThreadFrame
    /\ UNCHANGED <<ver, status, bindpoint, data, gl_buffer, bind_number,
                   bind_tmp, worker_pc, worker_tmp>>

\* Lines 409-413.
BindBase ==
    /\ status = "live" /\ bind_pc = "bind_base"
    /\ bindpoint' = bind_number
    /\ bind_pc' = "idle"
    /\ ThreadFrame
    /\ UNCHANGED <<ver, status, flag, data, gl_buffer, bind_number, bind_tmp,
                   worker_pc, worker_tmp>>

\* The worker computes new live values.
WorkerSetValues ==
    /\ status = "live" /\ worker_pc = "idle"
    /\ ver' = 1 - ver
    /\ worker_pc' = "eval"
    /\ ThreadFrame
    /\ UNCHANGED <<status, bindpoint, flag, data, gl_buffer, bind_pc,
                   bind_number, bind_tmp, worker_tmp>>

\* GPU_uniformbuffer_dynamic_eval on the worker.
WorkerEval ==
    /\ status = "live" /\ worker_pc = "eval"
    /\ \E r \in GPU_uniformbuffer_dynamic_eval(data, ver) :
          /\ data' = r.data
          /\ status' = IF r.fault THEN "fault" ELSE "live"
    /\ worker_pc' = "tag_read"
    /\ ThreadFrame
    /\ UNCHANGED <<ver, bindpoint, flag, gl_buffer, bind_pc, bind_number,
                   bind_tmp, worker_tmp>>

\* Line 430, the read of ubo->flag.
WorkerTagRead ==
    /\ status = "live" /\ worker_pc = "tag_read"
    /\ worker_tmp' = flag
    /\ worker_pc' = "tag_write"
    /\ ThreadFrame
    /\ UNCHANGED <<ver, status, bindpoint, flag, data, gl_buffer, bind_pc,
                   bind_number, bind_tmp>>

\* Line 430, the write of ubo->flag.
WorkerTagWrite ==
    /\ status = "live" /\ worker_pc = "tag_write"
    /\ flag' = TagFlag(worker_tmp)
    /\ worker_pc' = "idle"
    /\ ThreadFrame
    /\ UNCHANGED <<ver, status, bindpoint, data, gl_buffer, bind_pc,
                   bind_number, bind_tmp, worker_tmp>>

InitThreads == InitWith(InputLists(MaxThreadInputs))

NextThreads ==
    \/ BuildBegin
    \/ BuildPopulate
    \/ BuildFinish
    \/ BindCheck
    \/ BindTestDirty
    \/ BindUpload
    \/ BindClearRead
    \/ BindClearWrite
    \/ BindBase
    \/ WorkerSetValues
    \/ WorkerEval
    \/ WorkerTagRead
    \/ WorkerTagWrite

SpecThreads == InitThreads /\ [][NextThreads]_vars

\* --------------------------------------------------- the builder alone
\* Build applied to longer input lists: filter, sort, layout, first sync.
MaxBuildInputs == 5

InitBuild == InitWith(InputLists(MaxBuildInputs))

NextBuild ==
    \/ BuildBegin
    \/ BuildPopulate
    \/ BuildFinish

SpecBuild == InitBuild /\ [][NextBuild]_vars

\* Build applied to lists that may hold a matrix input (9 or 16 components).
MaxWideInputs == 2

WideKinds ==
    InputKinds \cup {[type |-> t, source |-> "VEC_UNIFORM", link |-> FALSE] :
                        t \in {9, 16}}

InitWide == InitWith(UNION {[1..k -> WideKinds] : k \in 1..MaxWideInputs})

SpecWide == InitWide /\ [][NextBuild]_vars

\* ================================================================ claims
RECURSIVE SumSizes(_)
SumSizes(its) == IF its = <<>> THEN 0 ELSE Head(its).size + SumSizes(Tail(its))

\* Packed position (1-based) of the item laid out for the input at ptr.
PackedPos(ptr) == CHOOSE k \in 1..Len(r_inputs_sorted) : r_inputs_sorted[k] = ptr

AllQualify == \A i \in 1..Len(inputs) : gpu_input_is_dynamic_uniform(inputs[i])

\* The block holds, at the item laid out for the input at ptr, that input's
\* live value at version v.
HoldsLiveValue(ptr, v) ==
    \A c \in 0..(TypeOf(ptr) - 1) :
        data[items[PackedPos(ptr)].offset + c + 1] = <<ptr, c, v>>

\* C1: after a sync that follows a successful build over the same inputs,
\* the staging block holds, at the offset of the item laid out for each
\* qualifying input, that input's live value, whatever the original order.
\* Stated for the lists in which every input qualifies, where every lookup
\* value names an item.
C1_SyncCopiesLiveValues ==
    (status = "live" /\ last_op.op = "eval" /\ AllQualify)
        => \A k \in 1..Len(r_inputs_sorted) :
               HoldsLiveValue(r_inputs_sorted[k], ver)

\* C2 as claimed: the ranges [item.offset, item.offset + item.size), with the
\* stored offset taken as a byte offset, tile [0, buffer.size).
StoredLo(k) == items[k].offset
ByteLo(k) == SizeofFloat * items[k].offset

C2_StoredOffsetRangesTile ==
    status = "live" =>
        /\ \A k \in 1..Len(items) :
               StoredLo(k) >= 0 /\ StoredLo(k) + items[k].size <= size
        /\ \A b \in 0..(size - 1) :
               Cardinality({k \in 1..Len(items) :
                   StoredLo(k) <= b /\ b < StoredLo(k) + items[k].size}) = 1

\* C2 amended: the stored offset counts floats; the byte ranges
\* [4 * item.offset, 4 * item.offset + item.size) are pairwise disjoint and
\* cover exactly [0, buffer.size).
C2_ByteRangesTile ==
    status = "live" =>
        /\ \A k \in 1..Len(items) :
               /\ items[k].size > 0
               /\ ByteLo(k) >= 0 /\ ByteLo(k) + items[k].size <= size
        /\ \A b \in 0..(size - 1) :
               Cardinality({k \in 1..Len(items) :
                   ByteLo(k) <= b /\ b < ByteLo(k) + items[k].size}) = 1

C2_Witness ==
    /\ status = "live"
    /\ Len(items) = 3
    /\ \E k \in 1..Len(items) : items[k].gputype # TypeOf(r_inputs_sorted[k])

\* C3: while the buffer is being populated and once it is built, the item
\* sizes sum to buffer.size, and the staging block build allocates has
\* exactly buffer.size bytes.
C3_SizeIsSumOfItems ==
    /\ status \in {"populate", "live"} => SumSizes(items) = size
    /\ status = "live" => Len(data) * SizeofFloat = size

C3_Witness ==
    status = "populate" /\ Len(items) = 2 /\ link <= Len(r_inputs_sorted)

\* C4: after a successful build the lookup table has one entry per item,
\* its values are pairwise distinct valid indices into the original input
\* list, and entry k is the original index of the input packed at k.
C4_LookupIsOriginalIndex ==
    status = "live" =>
        /\ Len(id_lookup) = Len(items)
        /\ \A k \in 1..Len(id_lookup) :
               /\ id_lookup[k] \in 0..(Len(inputs) - 1)
               /\ InputPtr(id_lookup[k]) = r_inputs_sorted[k]
               /\ gpu_input_is_dynamic_uniform(inputs[id_lookup[k] + 1])
        /\ \A j, k \in 1..Len(id_lookup) :
               j # k => id_lookup[j] # id_lookup[k]

C4_Witness ==
    /\ status = "live"
    /\ Len(id_lookup) = 2
    /\ id_lookup[1] > id_lookup[2]
    /\ ~AllQualify

\* Bytes the layout pass gives a list of inputs.
LayoutBytes(list) ==
    LET sorted == gpu_uniformbuffer_inputs_sort(FilterInputs(list))
    IN  SumSizes([k \in 1..Len(sorted) |->
                     NewItem(get_padded_gpu_type(sorted, k), 0)])

\* C5: when the size the layout pass computes exceeds the platform maximum,
\* build returns null with "UBO too big", its handle released, no upload.
C5_TooLargeRejected ==
    (/\ status \notin {"none", "populate", "null_create_failed"}
     /\ LayoutBytes(inputs) > MaxUboSize)
        => /\ status = "null_too_big"
           /\ gl_handles = {}
           /\ gl_buffer = <<>>

Uploads == {"glBufferData", "glBufferSubData"}
UploadsIn(calls) == Cardinality({i \in 1..Len(calls) : calls[i] \in Uploads})

BindStep == status = "live" /\ last_op'.op = "bind"

\* C6: a bind with slot >= the platform's bind-point count changes neither
\* the recorded bind slot nor the flags and makes no GL call, dirty or not.
C6_BindBadSlotIsNoop ==
    [][(BindStep /\ last_op'.number >= MaxUboBinds)
          => /\ bindpoint' = bindpoint
             /\ flag' = flag
             /\ gl_calls' = <<>>
             /\ gl_buffer' = gl_buffer]_vars

C6_Witness ==
    /\ last_op.op = "bind" /\ last_op.number >= MaxUboBinds
    /\ Dirty(flag)
    /\ bindpoint = 0
    /\ gl_buffer # data

\* C7: a bind of an Initialized-Clean buffer uploads nothing and leaves it
\* Clean; between two tags the binds make at most one upload.
C7_CleanBindNoUpload ==
    /\ [][(BindStep /\ Clean(flag))
             => /\ UploadsIn(gl_calls') = 0
                /\ gl_buffer' = gl_buffer
                /\ Clean(flag')]_vars
    /\ [](bind_uploads <= 1)

C7_Witness ==
    /\ last_op.op = "bind" /\ last_op.number < MaxUboBinds
    /\ bind_uploads = 1
    /\ gl_calls = <<"glBindBufferBase">>
    /\ Clean(flag)

\* C8: a bind of a Dirty buffer at a valid slot uploads the staging block
\* exactly once, before the bind-to-slot call, leaves the buffer
\* Initialized-Clean and records the slot.
C8_DirtyBindUploadsOnce ==
    [][(BindStep /\ last_op'.number < MaxUboBinds /\ Dirty(flag))
          => /\ Len(gl_calls') = 2
             /\ gl_calls'[1] \in Uploads
             /\ gl_calls'[2] = "glBindBufferBase"
             /\ gl_buffer' = data
             /\ Clean(flag')
             /\ bindpoint' = last_op'.number]_vars

C8_Witness ==
    /\ last_op.op = "bind"
    /\ gl_calls = <<"glBufferSubData", "glBindBufferBase">>
    /\ bindpoint = 1
    /\ \E w \in 1..Len(data) : data[w][3] = 1

\* C9 as claimed: a sync step or a tag on an Initialized-Clean buffer sets
\* the dirty flag.
C9_MutationSetsDirty ==
    [][(/\ status = "live" /\ status' = "live"
        /\ last_op'.op \in {"eval", "tag_dirty"}
        /\ Clean(flag))
          => Dirty(flag')]_vars

\* C9 amended: a tag on an Initialized-Clean buffer sets the dirty flag, and
\* the next bind at a valid slot then uploads the staging block; a sync step
\* leaves the flags as they are.
C9_TagSetsDirty ==
    /\ [][(status = "live" /\ last_op'.op = "tag_dirty") => Dirty(flag')]_vars
    /\ [][(BindStep /\ last_op'.number < MaxUboBinds /\ Dirty(flag))
             => UploadsIn(gl_calls') = 1 /\ gl_buffer' = data]_vars
    /\ [][(status = "live" /\ last_op'.op = "eval") => flag' = flag]_vars

C9_Witness ==
    /\ status = "live"
    /\ last_op.op = "tag_dirty"
    /\ Dirty(flag)
    /\ gl_buffer # data


\* C10: with the worker syncing and tagging while the GPU-context thread
\* binds, every tagged update is uploaded by that bind or a later one: once
\* both threads are out of their calls, a Clean buffer's GPU store holds the
\* staging block.
C10_NoLostUpload ==
    (status = "live" /\ Idle /\ ~Dirty(flag)) => gl_buffer = data

\* C11: a build over a list with no qualifying input returns null and
\* reports nothing: no handle is generated, nothing is allocated, err_out
\* is not written and the sorted-output list stays empty.
NoneQualifies ==
    \A i \in 1..Len(inputs) :
        inputs[i].source # "VEC_UNIFORM" \/ inputs[i].link = TRUE

C11_EmptyBuildReturnsNull ==
    (status # "none" /\ NoneQualifies)
        => /\ status = "null_empty"
           /\ gl_handles = {} /\ bindcode = 0
           /\ gl_calls = <<>> /\ gl_buffer = <<>>
           /\ data = <<>> /\ id_lookup = <<>> /\ items = <<>> /\ size = 0
           /\ err_out = ""
           /\ r_inputs_sorted = <<>>

C11_Witness ==
    status = "null_empty" /\ last_op.op = "build" /\ Len(inputs) = 2

\* The sorter has run: r_inputs_sorted is its output.
Sorted == status \in {"populate", "live", "fault"}

SortedType(k) == TypeOf(r_inputs_sorted[k])

\* Positions of the entries of class t in the sorted list, in order.
PosOfClass(t) ==
    SelectSeq([k \in 1..Len(r_inputs_sorted) |-> k], LAMBDA k : SortedType(k) = t)

FollowedByFloat(k) ==
    k < Len(r_inputs_sorted) /\ SortedType(k + 1) = GPU_FLOAT

Min(a, b) == IF a < b THEN a ELSE b

InputTypes == [i \in 1..Len(inputs) |-> inputs[i].type]

\* C12: after the sorter exactly min(V, F) vec3 entries are immediately
\* followed by a float, the k-th vec3 by the k-th float; and inputs
\* [vec4, vec3, float, vec2] are packed in that order with the vec3 unpadded.
C12_PairsVec3WithFloat ==
    /\ Sorted =>
          LET v3 == PosOfClass(GPU_VEC3)
              f1 == PosOfClass(GPU_FLOAT)
              n == Min(Len(v3), Len(f1))
          IN  /\ Cardinality({k \in 1..Len(r_inputs_sorted) :
                     SortedType(k) = GPU_VEC3 /\ FollowedByFloat(k)}) = n
              /\ \A k \in 1..n : f1[k] = v3[k] + 1
    /\ (status = "live" /\ AllQualify
        /\ InputTypes = <<GPU_VEC4, GPU_VEC3, GPU_FLOAT, GPU_VEC2>>)
          => /\ r_inputs_sorted = [k \in 1..4 |-> InputPtr(k - 1)]
             /\ items[2].size = 3 * SizeofFloat

C12_Witness ==
    /\ status = "live" /\ AllQualify
    /\ InputTypes = <<GPU_VEC4, GPU_VEC3, GPU_FLOAT, GPU_VEC2>>
    /\ items[2].size = 3 * SizeofFloat

\* C13: in the item table every vec3 not immediately followed by a float in
\* packed order is a 16-byte item, the last entry of the list included, and
\* a vec3 immediately followed by a float is a 12-byte item.
C13_UnpairedVec3Padded ==
    status = "live" =>
        \A k \in 1..Len(items) :
            SortedType(k) = GPU_VEC3 =>
                items[k].size = IF FollowedByFloat(k)
                                THEN GPU_VEC3 * SizeofFloat
                                ELSE GPU_VEC4 * SizeofFloat

\* C14: a build over a list holding a qualifying input of a class above
\* vec4 stops at the assertion, and does so before the sorter has run on
\* that input and indexed its per-class table with it.
WideQualifies ==
    \E i \in 1..Len(inputs) :
        /\ gpu_input_is_dynamic_uniform(inputs[i])
        /\ inputs[i].type > MAX_UBO_GPU_TYPE

C14_WideTypeAssertsFirst ==
    (WideQualifies /\ status \notin {"none", "null_create_failed"})
        => status = "assert"

\* C15: the full-allocation upload (glBufferData) is made exactly once, by
\* build, which returns the buffer Initialized-Clean and unbound; every
\* later upload is a glBufferSubData, and the store keeps the total size the
\* first upload gave it.
CallsOf(name) == Len(SelectSeq(gl_calls, LAMBDA c : c = name))

C15_FirstUploadOnceInBuild ==
    status = "live" =>
        /\ GPU_UBO_FLAG_INITIALIZED \in flag
        /\ Len(gl_buffer) * SizeofFloat = size
        /\ IF last_op.op = "build"
           THEN /\ gl_calls = <<"glBufferData">>
                /\ Clean(flag)
                /\ bindpoint = -1
           ELSE /\ CallsOf("glBufferData") = 0
                /\ CallsOf("glBufferSubData") <= 1

C15_Witness ==
    /\ status = "live"
    /\ last_op.op = "bind"
    /\ CallsOf("glBufferSubData") = 1
    /\ size = 2 * GPU_VEC4 * SizeofFloat

\* C16: on a built buffer, sync, tag-dirty, dynamic update, bind and unbind
\* leave the item table, the lookup table and buffer.size as they were;
\* tag-dirty, bind and unbind also leave the staging block as it was, and
\* sync and tag-dirty leave the bind slot as it was.
LayoutKept == items' = items /\ id_lookup' = id_lookup /\ size' = size

FrameStep ==
    status = "live" =>
        /\ last_op'.op \in {"eval", "tag_dirty", "dynamic_update", "bind", "unbind"}
              => LayoutKept
        /\ last_op'.op \in {"tag_dirty", "bind", "unbind"} => data' = data
        /\ last_op'.op \in {"eval", "tag_dirty"} => bindpoint' = bindpoint

C16_OnlyFreeChangesLayout == [][FrameStep]_vars

C16_Witness ==
    /\ status = "live"
    /\ last_op.op = "unbind"
    /\ bindpoint = -1
    /\ Len(items) = 3
    /\ \E w \in 1..Len(data) : data[w][3] = 1

\* C17: the sorter's output is a permutation of its input list that keeps
\* the input order inside every component class and, once the floats that
\* directly follow a vec3 are set aside, runs through the classes in
\* descending order; with no vec3 in the list it is the class sort alone.
SorterInput == FilterInputs(inputs)

ClassOf(list, t) == SelectSeq(list, LAMBDA p : TypeOf(p) = t)

Range(list) == {list[k] : k \in 1..Len(list)}

Unrelocated ==
    SelectSeq([k \in 1..Len(r_inputs_sorted) |-> k],
              LAMBDA k : ~(/\ SortedType(k) = GPU_FLOAT
                           /\ k > 1
                           /\ SortedType(k - 1) = GPU_VEC3))

C17_SorterStablePermutation ==
    Sorted =>
        /\ Len(r_inputs_sorted) = Len(SorterInput)
        /\ Range(r_inputs_sorted) = Range(SorterInput)
        /\ Cardinality(Range(r_inputs_sorted)) = Len(r_inputs_sorted)
        /\ \A t \in GPU_FLOAT..GPU_VEC4 :
              ClassOf(r_inputs_sorted, t) = ClassOf(SorterInput, t)
        /\ \A i, j \in 1..Len(Unrelocated) :
              i < j => SortedType(Unrelocated[i]) >= SortedType(Unrelocated[j])
        /\ ClassOf(SorterInput, GPU_VEC3) = <<>>
              => r_inputs_sorted = BLI_listbase_sort(SorterInput)

C17_Witness ==
    /\ status = "live"
    /\ InputTypes = <<GPU_FLOAT, GPU_VEC3, GPU_FLOAT, GPU_VEC2, GPU_VEC3>>
    /\ AllQualify
    /\ r_inputs_sorted = <<InputPtr(1), InputPtr(0), InputPtr(4), InputPtr(2),
                           InputPtr(3)>>

\* C18: after a successful build every item of a vec4 or vec3 input starts
\* at a multiple of 4 components, every item of a vec2 input at a multiple
\* of 2, and no item reaches across a multiple of 4 components (16 bytes).
ItemWords(k) == items[k].size \div SizeofFloat

C18_LayoutAligned ==
    status = "live" =>
        \A k \in 1..Len(items) :
            /\ SortedType(k) \in {GPU_VEC4, GPU_VEC3}
                  => items[k].offset % GPU_VEC4 = 0
            /\ SortedType(k) = GPU_VEC2 => items[k].offset % GPU_VEC2 = 0
            /\ items[k].offset \div GPU_VEC4
                  = (items[k].offset + ItemWords(k) - 1) \div GPU_VEC4

C18_Witness ==
    /\ status = "live"
    /\ InputTypes = <<GPU_VEC2, GPU_VEC3, GPU_FLOAT, GPU_VEC3, GPU_VEC2>>
    /\ AllQualify
    /\ [k \in 1..Len(items) |-> items[k].offset] = <<0, 3, 4, 8, 10>>

\* C19: once a sync has run (build's own included), every lookup value it
\* consumed is a position of the item table: 0 <= id < number of items.
C19_LookupResolvesToItem ==
    status \in {"live", "fault"} =>
        \A k \in 1..Len(id_lookup) : HasLink(items, id_lookup[k])

\* C20: in a sync the bytes memcpy reads from a qualifying input's values
\* never exceed that input's own size (class x 4 bytes), and the bytes it
\* writes lie inside the staging block.  The read half is stated for the
\* inputs whose lookup value leads to their own item, so that it is the
\* item's size alone, not a wrong item, that decides it.
ConsumedItem(j) == BLI_findlink(items, id_lookup[j])

OwnItem(j) ==
    /\ HasLink(items, id_lookup[j])
    /\ r_inputs_sorted[id_lookup[j] + 1] = SorterInput[j]

C20_SyncReadsWithinInput ==
    status \in {"live", "fault"} =>
        \A j \in 1..Len(id_lookup) :
            /\ OwnItem(j) =>
                  ConsumedItem(j).size <= TypeOf(SorterInput[j]) * SizeofFloat
            /\ HasLink(items, id_lookup[j]) =>
                  ConsumedItem(j).offset * SizeofFloat + ConsumedItem(j).size
                      <= size

=============================================================================
